---- MODULE Spec2Model ----
(***************************************************************************)
(* A model of the afFIRM MCP adapter (firmae_mcp.py and firmae_lib):       *)
(*   - the JSON-RPC read loop, its worker threads and the output channel,  *)
(*   - run_cmd, the bounded process runner,                                *)
(*   - the CSV ledger (emulation_records.csv) and its record numbering,    *)
(*   - the SQLite run store (runs, analyses, analyses_fts),                *)
(*   - the firmae.emulate branch of handle_call, which uses all of them.   *)
(* Python's None is written "None"; JSON ids are written as strings.       *)
(***************************************************************************)
EXTENDS Integers, Sequences, FiniteSets, TLC

\* Bounds of the model.
MaxLines == 3
NChunks == 2

None == "None"

\* The read loop is writer 0 of the output channel; the worker thread started
\* for the n-th inbound line is writer n.
Main == 0
Workers == 1..MaxLines
Writers == {Main} \cup Workers

VARIABLES
  nread,       \* lines taken from sys.stdin so far
  pc,          \* read loop: "read" | "jwrite" | "exited" | "crashed"
  cur,         \* the line the loop read last
  msg,         \* binding of the module-level name msg
  jw,          \* per writer: where it is in run_and_reply / jwrite
  WRITE_LOCK,  \* set of writers holding the lock ({} when free)
  out          \* sys.stdout: the pieces written so far, in order

dvars == <<nread, pc, cur, msg, jw, WRITE_LOCK, out>>

VARIABLES
  rc           \* the caller of run_cmd: [pc, timed, ev, res, launches]

VARIABLES
  csv,         \* emulation_records.csv: [exists, readable, lines]
  ap,          \* per caller: where it is in append_emulation_record
  appends      \* calls of append_emulation_record so far

lvars == <<csv, ap, appends>>

VARIABLES
  db,          \* firmae_kb.sqlite: [tables, runs, analyses, analyses_fts]
  kb           \* the caller of the store: its last call and what it returned

kvars == <<db, kb>>

VARIABLES
  h,           \* per worker: where it is in handle_call's firmae.emulate branch
  emucalls     \* firmae.emulate calls so far

hvars == <<h, emucalls>>

VARIABLES
  ini,         \* the initialize exchanges so far: [params, reply]
  al,          \* the calls of _analyze_logs so far: [bundle, ret]
  sq           \* the last of a series of append_emulation_record calls

pvars == <<ini, al, sq>>

\* The variables outside the dispatcher.
nondvars == <<rc, lvars, kvars, hvars, pvars>>

\* The variables outside the ledger.
nonlvars == <<dvars, rc, kvars, hvars, pvars>>

vars == <<dvars, nondvars>>

----------------------------------------------------------------------------
(* Inbound lines.                                                          *)

Ids == {"1", "2"}
Methods == {"ping", "initialize", "shutdown", "tools/list", "resources/list",
            "prompts/list", "tools/call", "bogus"}
LONG == {"firmae.emulate"}
Tools == LONG \cup {"firmae.help"}

Line(kind, id, method, tool, pdict) ==
  [kind |-> kind, id |-> id, method |-> method, tool |-> tool, pdict |-> pdict]

\* kind "blank": empty after strip; "badjson": json.loads raises;
\* "nonobj": valid JSON that is not an object; "obj": a JSON object.
\* pdict = FALSE: params is a JSON value without .get (a list, a string).
Lines ==
  { Line("blank", None, None, None, TRUE),
    Line("badjson", None, None, None, TRUE),
    Line("nonobj", None, None, None, TRUE) }
  \cup { Line("obj", i, m, None, TRUE) :
           i \in {"1", None}, m \in (Methods \ {"tools/call"}) \cup {None} }
  \cup { Line("obj", "1", "initialize", None, FALSE) }
  \cup { Line("obj", i, "tools/call", t, TRUE) : i \in Ids \cup {None}, t \in Tools }
  \cup { Line("obj", "1", "tools/call", None, FALSE) }

NoLine == Line("blank", None, None, None, TRUE)

----------------------------------------------------------------------------
(* Outbound messages. req, notif and raised are history fields: the line   *)
(* that caused the message, whether that line had a method and no id, and  *)
(* whether the message reports an exception raised inside handle_call.     *)

Reply(id, kind, body, req, notif, raised) ==
  [id |-> id, kind |-> kind, body |-> body, req |-> req, notif |-> notif,
   raised |-> raised]

NoReply == Reply(None, "none", "none", 0, FALSE, FALSE)

Idle == [st |-> "idle", m |-> NoReply, k |-> 0, mid |-> None]

\* What handle_call can do for a tool: return a result with isError false,
\* return a result with isError true, or raise.
HandleCallOutcomes == {"ok", "isError", "raise"}

\* History only: the line is an object with a method name and no id.
HasMethodNoId(l) == l.kind = "obj" /\ l.id = None /\ l.method # None

IsNotificationDropsNothing(mid, m) == FALSE

IsNotificationIgnoresId(mid, m) == m # None

IsNotification(mid, m) == mid = None /\ m # None

\* except Exception as e: jwrite({... "id": msg.get("id") ...}). The handler
\* reads whatever msg is bound to: nothing (NameError), a value without .get
\* (AttributeError), or an object (possibly that of an earlier line).
HandlerCanReply(b) == b.kind = "obj"

ExceptReply(b, n, raised) == Reply(b.id, "error", "-32603", n, FALSE, raised)

\* The reply the dispatch chain writes inline for an object line, given the
\* outcome o of an inline handle_call; NoReply when it writes none.
InlineReply(l, n, o) ==
  LET mid == l.id
      m == l.method
      nf == HasMethodNoId(l)
  IN  IF m = "ping"
        THEN Reply(IF mid # None THEN mid ELSE "0", "result", "pong", n, nf, FALSE)
      ELSE IF IsNotification(mid, m) THEN NoReply
      ELSE IF m = "initialize"
        THEN IF l.pdict THEN Reply(mid, "result", "init", n, nf, FALSE)
                        ELSE ExceptReply(l, n, FALSE)
      ELSE IF m = "shutdown" THEN Reply(mid, "result", "null", n, nf, FALSE)
      ELSE IF m = "tools/list" THEN Reply(mid, "result", "tools", n, nf, FALSE)
      ELSE IF m = "resources/list" THEN Reply(mid, "result", "resources", n, nf, FALSE)
      ELSE IF m = "prompts/list" THEN Reply(mid, "result", "prompts", n, nf, FALSE)
      ELSE IF m = "tools/call"
        THEN IF ~l.pdict THEN ExceptReply(l, n, FALSE)
             ELSE IF l.tool \in LONG THEN NoReply
             ELSE IF o = "raise" THEN ExceptReply(l, n, TRUE)
             ELSE Reply(mid, "result", o, n, nf, FALSE)
      ELSE Reply(mid, "error", "-32601", n, nf, FALSE)

SpawnsThreadNever(l) == FALSE

SpawnsThread(l) ==
  /\ l.kind = "obj" /\ l.method = "tools/call" /\ l.pdict /\ l.tool \in LONG
  /\ ~IsNotification(l.id, l.method)

----------------------------------------------------------------------------
(* jwrite: with WRITE_LOCK: sys.stdout.write(...); sys.stdout.flush()      *)

LockFreeIgnored(w) == TRUE

LockFree(w) == WRITE_LOCK = {}

Alive == pc \in {"read", "jwrite"}

JwAcquire(w) ==
  /\ Alive
  /\ jw[w].st = "acquire"
  /\ LockFree(w)
  /\ WRITE_LOCK' = WRITE_LOCK \cup {w}
  /\ jw' = [jw EXCEPT ![w].st = "write", ![w].k = 1]
  /\ UNCHANGED <<nread, pc, cur, msg, out>>
  /\ UNCHANGED nondvars

JwWrite(w) ==
  /\ Alive
  /\ jw[w].st = "write"
  /\ out' = Append(out, [m |-> jw[w].m, part |-> jw[w].k, w |-> w])
  /\ jw' = IF jw[w].k = NChunks THEN [jw EXCEPT ![w].st = "release"]
                                ELSE [jw EXCEPT ![w].k = @ + 1]
  /\ UNCHANGED <<nread, pc, cur, msg, WRITE_LOCK>>
  /\ UNCHANGED nondvars

AfterReplyShutdownEndsLoop(m) ==
  IF m.kind = "result" /\ m.body = "null" THEN "exited" ELSE "read"

\* No branch of the dispatch chain leaves the for loop: after the reply is
\* written the loop goes back to read the next line, whatever the reply was.
AfterReply(m) == "read"

JwRelease(w) ==
  /\ Alive
  /\ jw[w].st = "release"
  /\ WRITE_LOCK' = WRITE_LOCK \ {w}
  /\ jw' = [jw EXCEPT ![w].st = IF w = Main THEN "idle" ELSE "done"]
  /\ pc' = IF w = Main THEN AfterReply(jw[w].m) ELSE pc
  /\ UNCHANGED <<nread, cur, msg, out>>
  /\ UNCHANGED nondvars

----------------------------------------------------------------------------
(* The read loop: for line in sys.stdin: ...                               *)

MainWritesWithoutWaiting(m) ==
  /\ pc' = "read"
  /\ jw' = [jw EXCEPT ![Main] = [st |-> "acquire", m |-> m, k |-> 0, mid |-> m.id]]

\* jwrite is called in the loop's own thread: the loop reads no line until
\* the message is written.
MainWrites(m) ==
  /\ pc' = "jwrite"
  /\ jw' = [jw EXCEPT ![Main] = [st |-> "acquire", m |-> m, k |-> 0, mid |-> m.id]]

\* One iteration up to its first jwrite: strip, json.loads, the dispatch
\* chain, and the except handler when something in the try block raises.
ReadLine(l, o) ==
  /\ pc = "read"
  /\ nread < MaxLines
  /\ nread' = nread + 1
  /\ cur' = l
  /\ UNCHANGED <<WRITE_LOCK, out>>
  /\ UNCHANGED nondvars
  /\ LET n == nread + 1 IN
     CASE l.kind = "blank" ->
            /\ UNCHANGED <<pc, msg, jw>>
       [] l.kind = "badjson" ->
            /\ UNCHANGED msg
            /\ IF HandlerCanReply(msg)
                 THEN MainWrites(ExceptReply(msg, n, FALSE))
                 ELSE pc' = "crashed" /\ UNCHANGED jw
       [] l.kind = "nonobj" ->
            /\ msg' = [kind |-> "nonobj", id |-> None]
            /\ pc' = "crashed"
            /\ UNCHANGED jw
       [] l.kind = "obj" ->
            /\ msg' = [kind |-> "obj", id |-> l.id]
            /\ IF SpawnsThread(l)
                 THEN /\ jw' = [jw EXCEPT ![n] = [st |-> "call", m |-> NoReply,
                                                  k |-> 0, mid |-> l.id]]
                      /\ UNCHANGED pc
                 ELSE IF InlineReply(l, n, o) = NoReply
                   THEN UNCHANGED <<pc, jw>>
                   ELSE MainWrites(InlineReply(l, n, o))

\* sys.stdin is exhausted: the loop ends and the interpreter exits; the
\* worker threads are daemon threads and end with it.
EndOfInput ==
  /\ pc = "read"
  /\ pc' = "exited"
  /\ UNCHANGED <<nread, cur, msg, jw, WRITE_LOCK, out>>
  /\ UNCHANGED nondvars

\* run_and_reply in a worker thread: handle_call, with any exception turned
\* into an isError result; then jwrite.
ThreadHandleCall(t, o) ==
  /\ Alive
  /\ jw[t].st = "call"
  /\ jw' = [jw EXCEPT ![t].st = "acquire",
                      ![t].m = Reply(jw[t].mid, "result",
                                     IF o = "raise" THEN "isError" ELSE o,
                                     t, FALSE, o = "raise")]
  /\ UNCHANGED <<nread, pc, cur, msg, WRITE_LOCK, out>>
  /\ UNCHANGED nondvars

DNext ==
  \/ \E l \in Lines, o \in HandleCallOutcomes : ReadLine(l, o)
  \/ EndOfInput
  \/ \E t \in Workers, o \in HandleCallOutcomes : ThreadHandleCall(t, o)
  \/ \E w \in Writers : JwAcquire(w)
  \/ \E w \in Writers : JwWrite(w)
  \/ \E w \in Writers : JwRelease(w)

----------------------------------------------------------------------------
(* Properties of the dispatcher.                                           *)

\* Positions in out of the last piece of a message caused by line n: the
\* complete replies to that line.
RepliesTo(n) ==
  { i \in DOMAIN out : out[i].part = NChunks /\ out[i].m.req = n }

\* C1: every tools/call with an id for firmae.emulate gets exactly one reply,
\* carrying its own id and written after handle_call finished. Stated on the
\* runs that end: once the process is gone, every worker that was started has
\* written exactly one complete reply with the id it was started with.
C1_EmulateRepliedOnce ==
  ~Alive =>
    \A t \in Workers :
      jw[t].st # "idle" =>
        /\ Cardinality(RepliesTo(t)) = 1
        /\ \A i \in RepliesTo(t) : out[i].m.id = jw[t].mid /\ out[i].w = t

\* C2: the read loop never stops before the end of input: no inbound line
\* ends the loop with an uncaught exception.
C2_LoopSurvivesEveryLine == pc # "crashed"

\* C3 as stated: no message on the output channel was caused by a line with
\* a method name and no id.
C3_NoReplyToAnyNotification ==
  \A i \in DOMAIN out : ~out[i].m.notif

\* C3 amended: a line with a method name other than ping and no id causes no
\* output; the only message caused by a line with a method and no id is the
\* answer to ping, which carries the dummy id 0.
C3_OnlyPingNotificationAnswered ==
  \A i \in DOMAIN out :
    out[i].m.notif =>
      /\ out[i].m.kind = "result" /\ out[i].m.body = "pong" /\ out[i].m.id = "0"
      /\ out[i].w = Main

\* C3 witness: the loop has read a tools/call without id, is back at the loop
\* head, and nothing was written for that line.
C3_Witness ==
  /\ pc = "read" /\ nread >= 1
  /\ cur.kind = "obj" /\ cur.id = None /\ cur.method = "tools/call"
  /\ \A i \in DOMAIN out : out[i].m.req # nread

\* C4: writes to the output channel are serialized by WRITE_LOCK: at most one
\* writer holds the lock, whoever is writing holds it, and the pieces of one
\* message are contiguous and in order, so out is a sequence of complete
\* messages followed at most by the message being written.
C4_NoInterleavedOutput ==
  /\ Cardinality(WRITE_LOCK) <= 1
  /\ \A w \in Writers : jw[w].st \in {"write", "release"} => w \in WRITE_LOCK
  /\ \A i \in DOMAIN out :
       /\ out[i].part > 1 =>
            /\ i > 1
            /\ out[i-1].w = out[i].w /\ out[i-1].m = out[i].m
            /\ out[i-1].part = out[i].part - 1
       /\ (out[i].part < NChunks /\ i < Len(out)) =>
            /\ out[i+1].w = out[i].w /\ out[i+1].m = out[i].m
            /\ out[i+1].part = out[i].part + 1
       /\ (out[i].part < NChunks /\ i = Len(out)) =>
            jw[out[i].w].st = "write" /\ jw[out[i].w].m = out[i].m

\* C4 witness: one worker is in the middle of a message while another worker
\* and the read loop both wait for the lock.
C4_Witness ==
  \E a, b \in Workers :
    /\ a # b
    /\ jw[a].st = "write" /\ jw[a].k > 1
    /\ jw[b].st = "acquire"
    /\ jw[Main].st = "acquire"

\* C5: an exception raised inside handle_call, inline or in a worker, is
\* reported as a tool result with isError true and the request's id, never as
\* a JSON-RPC error object.
C5_RaiseBecomesToolError ==
  \A i \in DOMAIN out :
    out[i].m.raised => out[i].m.kind = "result" /\ out[i].m.body = "isError"

\* C11: the error reply written for an unparsable line never carries the id
\* of a different request: every error reply the loop writes carries the id
\* of the line being processed, which for an unparsable line is null.
C11_ErrorReplyIdFromSameLine ==
  (pc = "jwrite" /\ jw[Main].m.kind = "error") => jw[Main].m.id = cur.id

\* The line read last is a tools/call with an id for a long-running tool.
CurIsLongCall ==
  /\ nread >= 1
  /\ cur.kind = "obj" /\ cur.method = "tools/call" /\ cur.pdict
  /\ cur.tool \in LONG /\ cur.id # None

\* C12: a tools/call for a long-running tool does not block the read loop:
\* right after reading it the loop is ready to read the next line, a worker
\* thread has been started for the call, and the loop itself writes nothing
\* for it.
C12_LongCallDoesNotBlockLoop ==
  CurIsLongCall =>
    /\ pc \in {"read", "exited"}
    /\ jw[nread].st # "idle"
    /\ jw[nread].mid = cur.id
    /\ \A i \in DOMAIN out : out[i].m.req = nread => out[i].w = nread

\* C12 witness: the complete reply to a later inline request is on the
\* output channel while the worker of an earlier long-running call has not
\* written anything.
C12_Witness ==
  \E t \in Workers, i \in DOMAIN out :
    /\ jw[t].st \in {"call", "acquire"}
    /\ \A k \in DOMAIN out : out[k].m.req # t
    /\ out[i].w = Main /\ out[i].part = NChunks /\ out[i].m.req > t
    /\ out[i].m.kind = "result"

\* The line read last is answered by the loop itself.
CurIsInline ==
  /\ nread >= 1
  /\ cur.kind = "obj" /\ cur.id # None
  /\ ~(cur.method = "tools/call" /\ cur.pdict /\ cur.tool \in LONG)

\* C13: the replies to inline requests are written in request order, also
\* while workers write: the loop's messages appear in out in the order of
\* the lines that caused them, the loop reads no line while a message of its
\* own is unwritten, and when it is ready to read, the inline request read
\* last has its one complete reply.
C13_InlineRepliesInRequestOrder ==
  /\ \A i, j \in DOMAIN out :
       (i < j /\ out[i].w = Main /\ out[j].w = Main) => out[i].m.req <= out[j].m.req
  /\ \A i \in DOMAIN out : out[i].w = Main => out[i].m.req <= nread
  /\ pc = "jwrite" => jw[Main].st # "idle" /\ jw[Main].m.req = nread
  /\ pc \in {"read", "exited"} =>
       /\ jw[Main].st = "idle"
       /\ CurIsInline =>
            \E i \in DOMAIN out :
              /\ RepliesTo(nread) = {i}
              /\ out[i].w = Main /\ out[i].m.id = cur.id

\* C13 witness: the replies to two inline requests are complete and in order,
\* with the reply of a worker written between them.
C13_Witness ==
  \E i, j, k \in DOMAIN out :
    /\ i < j /\ j < k
    /\ out[i].w = Main /\ out[i].part = NChunks
    /\ out[j].w \in Workers
    /\ out[k].w = Main /\ out[k].part = NChunks
    /\ out[i].m.req < out[k].m.req
    /\ out[i].m.id # None /\ out[k].m.id # None

KnownMethods == {"ping", "initialize", "shutdown", "tools/list", "resources/list",
                 "prompts/list", "tools/call"}

\* The line read last is a request with an id whose method is none of the
\* methods the dispatch chain knows.
CurIsUnknownMethod ==
  /\ nread >= 1
  /\ cur.kind = "obj" /\ cur.id # None /\ cur.method \notin KnownMethods

\* C15: a request with an id and an unknown method gets exactly one reply:
\* an error object with code -32601 and the request's id. While the loop is
\* writing, that is the message being written; once it is back at the loop
\* head, that is the one complete message caused by the line.
C15_UnknownMethodNotFound ==
  CurIsUnknownMethod =>
    /\ pc # "crashed"
    /\ pc = "jwrite" =>
         /\ jw[Main].m.kind = "error" /\ jw[Main].m.body = "-32601"
         /\ jw[Main].m.id = cur.id /\ jw[Main].m.req = nread
    /\ pc \in {"read", "exited"} =>
         \E i \in DOMAIN out :
           /\ RepliesTo(nread) = {i}
           /\ out[i].m.kind = "error" /\ out[i].m.body = "-32601"
           /\ out[i].m.id = cur.id
    /\ \A i \in DOMAIN out :
         out[i].m.req = nread => out[i].m.kind = "error" /\ out[i].w = Main

\* C15 witness: the reply to an unknown method has been written completely.
C15_Witness ==
  /\ CurIsUnknownMethod /\ cur.method = "bogus"
  /\ pc = "read"
  /\ \E i \in DOMAIN out : out[i].m.req = nread /\ out[i].part = NChunks

\* The line read last is a shutdown request with an id.
CurIsShutdown ==
  /\ nread >= 1
  /\ cur.kind = "obj" /\ cur.method = "shutdown" /\ cur.id # None

\* What the dispatch chain does with an object line, in the state right
\* after the line was read.
DispatchedByTable ==
  cur.kind = "obj" =>
    IF cur.method = "tools/call" /\ cur.pdict /\ cur.tool \in LONG /\ cur.id # None
      THEN pc = "read" /\ jw[nread].st = "call" /\ jw[nread].mid = cur.id
      ELSE \E o \in HandleCallOutcomes :
             IF InlineReply(cur, nread, o) = NoReply
               THEN pc = "read" /\ jw[Main].st = "idle"
               ELSE pc = "jwrite" /\ jw[Main].m = InlineReply(cur, nread, o)

\* C16: a shutdown request with an id is answered with result null and
\* leaves the loop running: while its reply is written the loop stays in the
\* write or returns to the loop head, and the request read next is
\* dispatched as any request is.
C16_ShutdownLeavesLoopRunning ==
  [][ CurIsShutdown =>
        /\ pc = "jwrite" =>
             /\ jw[Main].m = Reply(cur.id, "result", "null", nread, FALSE, FALSE)
             /\ pc' \in {"jwrite", "read"}
        /\ pc = "crashed" => FALSE
        /\ nread' = nread + 1 => DispatchedByTable' ]_vars

\* C16 witness: a request read after an answered shutdown has its reply.
C16_Witness ==
  \E i, j \in DOMAIN out :
    /\ i < j
    /\ out[i].m.kind = "result" /\ out[i].m.body = "null" /\ out[i].part = NChunks
    /\ out[j].m.kind = "result" /\ out[j].m.body = "tools" /\ out[j].part = NChunks
    /\ out[j].m.req = out[i].m.req + 1

----------------------------------------------------------------------------
(* run_cmd(cmd, args, timeout_sec): one subprocess.run, mapped onto        *)
(* (exit_code, stdout, stderr, duration). Text is a sequence of tokens.    *)

MaxRuns == 2

ESC == "ESC[31m"
TimeoutMarker == "\n[timeout]"
ErrorPrefix == "[error] "

ExitCodes == {0, 1, 2, 124, 127}
Captured == {<<>>, <<"a">>, <<ESC, "a">>}

\* A captured stream: a text or None.
Some(x) == [some |-> TRUE, text |-> x]
Nothing == [some |-> FALSE, text |-> <<>>]

Event(kind, returncode, stdout, stderr, e) ==
  [kind |-> kind, returncode |-> returncode, stdout |-> stdout,
   stderr |-> stderr, e |-> e]

DecodeError == "'utf-8' codec can't decode byte 0xff"

\* What subprocess.run can do: return a CompletedProcess with the child's
\* exit status, or raise TimeoutExpired (only with a timeout), or
\* FileNotFoundError, or another exception. With text=True the captured
\* bytes are decoded strictly inside subprocess.run: a child that exited
\* with status returncode after writing a byte that is not UTF-8 makes it
\* raise UnicodeDecodeError (kind "undecodable").
Events(timed) ==
  { Event("completed", c, Some(o), Some(e), "") :
      c \in ExitCodes, o \in Captured, e \in Captured \cup {<<"a", TimeoutMarker>>} }
  \cup (IF timed
          THEN { Event("timeout", 0, o, e, "") :
                   o \in {Nothing, Some(<<"a">>)}, e \in {Nothing, Some(<<ESC, "a">>)} }
          ELSE {})
  \cup { Event("notfound", 0, Nothing, Nothing, "No such file or directory") }
  \cup { Event("error", 0, Nothing, Nothing, "Permission denied") }
  \cup { Event("undecodable", c, Nothing, Nothing, DecodeError) : c \in ExitCodes }

_to_str(x) == IF x.some THEN x.text ELSE <<>>

IsPlain(c) == c # ESC

_strip_ansi(x) == SelectSeq(x, IsPlain)

Outcome(code, o, e, raised) ==
  [code |-> code, out |-> o, err |-> e, dur |-> "elapsed", from |-> raised]

\* from is a history field: the branch of run_cmd that built the result.
run_cmd(ev) ==
  CASE ev.kind = "completed" ->
         Outcome(ev.returncode, _strip_ansi(_to_str(ev.stdout)),
                 _strip_ansi(_to_str(ev.stderr)), "completed")
    [] ev.kind = "timeout" ->
         Outcome(124, _strip_ansi(_to_str(ev.stdout)),
                 _strip_ansi(_to_str(ev.stderr)) \o <<TimeoutMarker>>, "timeout")
    [] ev.kind = "notfound" ->
         Outcome(127, <<>>, <<ErrorPrefix, ev.e>>, "notfound")
    [] OTHER ->
         Outcome(1, <<>>, <<ErrorPrefix, ev.e>>, "error")

NoEvent == Event("none", 0, Nothing, Nothing, "")
NoOutcome == Outcome(0, <<>>, <<>>, "none")

RcIdle == [pc |-> "idle", timed |-> FALSE, ev |-> NoEvent, res |-> NoOutcome,
           launches |-> 0]

\* run_cmd is entered and subprocess.run is called: the environment decides
\* what the launch does.
RcLaunch(timed, ev) ==
  /\ rc.pc = "idle"
  /\ rc.launches < MaxRuns
  /\ ev \in Events(timed)
  /\ rc' = [rc EXCEPT !.pc = "launched", !.timed = timed, !.ev = ev,
                      !.launches = @ + 1]
  /\ UNCHANGED <<dvars, pvars, lvars, kvars, hvars>>

RcReturn ==
  /\ rc.pc = "launched"
  /\ rc' = [rc EXCEPT !.pc = "returned", !.res = run_cmd(rc.ev)]
  /\ UNCHANGED <<dvars, pvars, lvars, kvars, hvars>>

RcNextCall ==
  /\ rc.pc = "returned"
  /\ rc' = [rc EXCEPT !.pc = "idle"]
  /\ UNCHANGED <<dvars, pvars, lvars, kvars, hvars>>

RcNext ==
  \/ \E timed \in BOOLEAN : \E ev \in Events(timed) : RcLaunch(timed, ev)
  \/ RcReturn
  \/ RcNextCall

EndsWith(x, tok) == Len(x) >= 1 /\ x[Len(x)] = tok

\* C7: exit code 124 is returned only when the timeout expired, and then
\* stderr ends with the marker [timeout]; 127 is returned only when the
\* executable was not found; a process that ran to completion with its own
\* non-zero exit code never yields 124 or 127.
C7_SentinelsAreUnambiguous ==
  rc.pc = "returned" =>
    /\ rc.res.code = 124 =>
         rc.ev.kind = "timeout" /\ EndsWith(rc.res.err, TimeoutMarker)
    /\ rc.res.code = 127 => rc.ev.kind = "notfound"
    /\ (rc.ev.kind = "completed" /\ rc.ev.returncode # 0) =>
         rc.res.code \notin {124, 127}

\* The child ran to its end and exited with status ev.returncode.
ChildExited(ev) == ev.kind \in {"completed", "undecodable"}

\* C26: run_cmd returns a four-part result for every outcome of the launch:
\* the child's real exit code when the child ran to completion, 124 with
\* the marker [timeout] closing stderr on a timeout, 127 with the error text
\* when the executable is missing, 1 with the error text for any other
\* exception raised by the launch.
C26_TotalWithRealExitCode ==
  rc.pc = "returned" =>
    /\ DOMAIN rc.res = {"code", "out", "err", "dur", "from"}
    /\ ChildExited(rc.ev) => rc.res.code = rc.ev.returncode
    /\ rc.ev.kind = "timeout" =>
         rc.res.code = 124 /\ EndsWith(rc.res.err, TimeoutMarker)
    /\ rc.ev.kind = "notfound" =>
         rc.res.code = 127 /\ rc.res.err = <<ErrorPrefix, rc.ev.e>>
    /\ rc.ev.kind = "error" =>
         rc.res.code = 1 /\ rc.res.err = <<ErrorPrefix, rc.ev.e>>

----------------------------------------------------------------------------
----------------------------------------------------------------------------
(* The ledger, firmae_lib/logger.py. A line of the file is its first       *)
(* column, a sequence of characters, and the remaining columns.            *)

NAppenders == 3
MaxAppends == 4

Appenders == 1..NAppenders

Digits == <<"0", "1", "2", "3", "4", "5", "6", "7", "8", "9">>

DigitVal(c) == CHOOSE i \in 0..9 : Digits[i + 1] = c

IsDigit(c) == \E i \in 0..9 : Digits[i + 1] = c

\* str(n) for n >= 0, as csv.DictWriter writes the number.
RECURSIVE str(_)
str(n) == IF n < 10 THEN <<Digits[n + 1]>>
          ELSE str(n \div 10) \o <<Digits[(n % 10) + 1]>>

\* int(first_col) raises ValueError unless the text is a numeral.
IntRaises(s) == Len(s) = 0 \/ \E i \in DOMAIN s : ~IsDigit(s[i])

RECURSIVE int(_)
int(s) == IF Len(s) = 1 THEN DigitVal(s[1])
          ELSE 10 * int(SubSeq(s, 1, Len(s) - 1)) + DigitVal(s[Len(s)])

CsvLine(first, rest) == [first |-> first, rest |-> rest]

header == CsvLine(<<"n", "u", "m", "b", "e", "r">>,
                  <<"firmware_name", "architecture", "brand", "ping", "web", "result">>)
BlankLine == CsvLine(<<>>, <<>>)
BadRow == CsvLine(<<"x">>, <<"fw", "", "b", "false", "false", "false">>)

_to_bool_str(val) == IF val THEN "true" ELSE "false"

\* The row for a call with no numeric scratch directory: the name from
\* fw_path, no architecture, the brand argument, ping and web false, result
\* from the exit code.
Row(number, exit_code) ==
  CsvLine(str(number),
          <<"fw", "", "b", _to_bool_str(FALSE), _to_bool_str(FALSE),
            _to_bool_str(exit_code = 0)>>)

\* ln.strip() is non-empty.
Stripped(ln) == ln # BlankLine

File(exists, readable, lines) ==
  [exists |-> exists, readable |-> readable, lines |-> lines]

Absent == File(FALSE, TRUE, <<>>)

Max2(a, b) == IF a >= b THEN a ELSE b

MaxOf(S) == IF S = {} THEN 0 ELSE CHOOSE m \in S : \A x \in S : x <= m

_next_record_number_off_by_one(f) ==
  IF ~f.exists THEN 1
  ELSE IF ~f.readable THEN 1
  ELSE LET rows == SelectSeq(f.lines, Stripped) IN
       IF Len(rows) >= 2
         THEN LET first_col == rows[Len(rows)].first IN
              IF IntRaises(first_col)
                THEN Max2(1, (Len(f.lines) - 1) + 1)
                ELSE int(first_col)
         ELSE 0 + 1

_next_record_number_counts_rows(f) ==
  IF ~f.exists THEN 1
  ELSE IF ~f.readable THEN 1
  ELSE LET rows == SelectSeq(f.lines, Stripped) IN
       IF Len(rows) >= 2
         THEN LET first_col == rows[Len(rows)].first IN
              IF IntRaises(first_col)
                THEN Max2(1, Len(f.lines) - 1)
                ELSE int(first_col) + 1
         ELSE 0 + 1

\* _next_record_number(csv_path). The first open raising sends control to
\* the except branch, whose own open raises too: return 1.
_next_record_number(f) ==
  IF ~f.exists THEN 1
  ELSE IF ~f.readable THEN 1
  ELSE LET rows == SelectSeq(f.lines, Stripped) IN
       IF Len(rows) >= 2
         THEN LET first_col == rows[Len(rows)].first IN
              IF IntRaises(first_col)
                THEN Max2(1, (Len(f.lines) - 1) + 1)
                ELSE int(first_col) + 1
         ELSE 0 + 1

ApIdle == [pc |-> "idle", exit_code |-> 0, number |-> 0, write_header |-> FALSE,
           row |-> BlankLine, wrote |-> "none"]

\* append_emulation_record is entered (lines 82-131 read only the scratch
\* directory).
LedgerCall(w, exit_code) ==
  /\ ap[w].pc = "idle"
  /\ appends < MaxAppends
  /\ appends' = appends + 1
  /\ ap' = [ap EXCEPT ![w] = [ApIdle EXCEPT !.pc = "number", !.exit_code = exit_code]]
  /\ UNCHANGED <<csv, nonlvars>>

LedgerSerialized(w) ==
  \A v \in Appenders \ {w} : ap[v].pc \in {"idle", "returned"}

\* append_emulation_record takes no lock: a caller reads the ledger whatever
\* the other callers are doing.
LedgerMayProceed(w) == TRUE

\* row = {"number": _next_record_number(csv_path), ...}
LedgerNumber(w) ==
  /\ ap[w].pc = "number"
  /\ LedgerMayProceed(w)
  /\ ap' = [ap EXCEPT ![w].pc = "exists",
                      ![w].number = _next_record_number(csv),
                      ![w].row = Row(_next_record_number(csv), ap[w].exit_code)]
  /\ UNCHANGED <<csv, appends, nonlvars>>

\* write_header = not os.path.exists(csv_path)
LedgerCheckHeader(w) ==
  /\ ap[w].pc = "exists"
  /\ ap' = [ap EXCEPT ![w].pc = "write", ![w].write_header = ~csv.exists]
  /\ UNCHANGED <<csv, appends, nonlvars>>

\* with open(csv_path, "a") ...: writeheader, writerow; any exception is
\* swallowed. The header and the row reach the file in one append when the
\* file is closed. how = "open_failed": open raises; "write_failed": open
\* has created the file and the write raises.
LedgerWrite(w, how) ==
  /\ ap[w].pc = "write"
  /\ csv' = CASE how = "ok" ->
                   File(TRUE, csv.readable,
                        csv.lines \o (IF ap[w].write_header THEN <<header>> ELSE <<>>)
                                  \o <<ap[w].row>>)
              [] how = "write_failed" -> File(TRUE, csv.readable, csv.lines)
              [] OTHER -> csv
  /\ ap' = [ap EXCEPT ![w].pc = "returned", ![w].wrote = how]
  /\ UNCHANGED <<appends, nonlvars>>

WriteOutcomes == {"ok", "open_failed", "write_failed"}

\* return row
LedgerReturn(w) ==
  /\ ap[w].pc = "returned"
  /\ ap' = [ap EXCEPT ![w] = ApIdle]
  /\ UNCHANGED <<csv, appends, nonlvars>>

R(n) == Row(n, 0)

\* The ledger files the server may find when it starts.
InitialLedgers ==
  { Absent }
  \cup { File(TRUE, TRUE, ls) :
           ls \in { <<>>, <<header>>, <<header, R(1)>>, <<header, R(1), R(2)>>,
                    <<header, R(1), BadRow>>, <<header, R(2), BlankLine>> } }
  \cup { File(TRUE, FALSE, <<header, R(1)>>) }

LNext ==
  \/ \E w \in Appenders, e \in {0, 1} : LedgerCall(w, e)
  \/ \E w \in Appenders : LedgerNumber(w)
  \/ \E w \in Appenders : LedgerCheckHeader(w)
  \/ \E w \in Appenders, how \in WriteOutcomes : LedgerWrite(w, how)
  \/ \E w \in Appenders : LedgerReturn(w)

\* The numbers of the data rows of a ledger: the first column of every
\* non-blank line after the first that holds a numeral.
RowNumbers(f) ==
  LET rows == SelectSeq(f.lines, Stripped) IN
  { int(rows[i].first) : i \in { j \in 2..Len(rows) : ~IntRaises(rows[j].first) } }

\* The data rows are all numbered and their numbers never decrease.
Ascending(f) ==
  LET rows == SelectSeq(f.lines, Stripped) IN
  /\ \A j \in 2..Len(rows) : ~IntRaises(rows[j].first)
  /\ \A j \in 3..Len(rows) : int(rows[j-1].first) <= int(rows[j].first)

\* C6 as stated: for every ledger file state (absent, empty, header only,
\* rows in any order, a malformed last row) the number computed for the new
\* row is 1 plus the maximum number among the existing rows, or 1 if there
\* are none.
C6_NumberIsOnePlusMax ==
  [][\A w \in Appenders :
       (LedgerNumber(w) /\ csv.readable) =>
         ap'[w].number = 1 + MaxOf(RowNumbers(csv))]_vars

\* C6 amended: for a readable ledger the number is 1 plus the number in the
\* last non-blank line (which is 1 plus the maximum when the rows are in
\* ascending order), 1 when the file is absent, unreadable or has fewer than
\* two non-blank lines, and the file's line count when the first column of
\* the last non-blank line is not a numeral.
C6_NumberIsOnePlusLast ==
  [][\A w \in Appenders :
       LedgerNumber(w) =>
         LET n == ap'[w].number
             rows == SelectSeq(csv.lines, Stripped)
             last == rows[Len(rows)].first
         IN  /\ (~csv.exists \/ ~csv.readable \/ Len(rows) < 2) => n = 1
             /\ (csv.exists /\ csv.readable /\ Len(rows) >= 2) =>
                  /\ ~IntRaises(last) => n = int(last) + 1
                  /\ IntRaises(last) => n = Len(csv.lines)
                  /\ Ascending(csv) => n = 1 + MaxOf(RowNumbers(csv))
             /\ ap'[w].row.first = str(n)]_vars

\* C6 witness: a caller has just numbered its row 2 from a ledger whose rows
\* are 1, 2, 1, written by overlapping calls: the last row, not the maximum,
\* decided.
C6_Witness ==
  \E w \in Appenders :
    /\ ap[w].pc = "exists" /\ ap[w].number = 2
    /\ \A v \in Appenders \ {w} : ap[v].pc = "idle"
    /\ Len(csv.lines) = 4
    /\ csv.lines[1] = header
    /\ csv.lines[2].first = str(1) /\ csv.lines[3].first = str(2)
    /\ csv.lines[4].first = str(1)

\* The ledger exists, can be read, and the first column of its last
\* non-blank line, a data row, is not a numeral.
LastRowUnparsable(f) ==
  LET rows == SelectSeq(f.lines, Stripped) IN
  /\ f.exists /\ f.readable
  /\ Len(rows) >= 2
  /\ IntRaises(rows[Len(rows)].first)

\* C24 as stated: when the first column of the last data row is not an
\* integer, _next_record_number returns the number of data rows: the file's
\* line count minus one header line, floored at 1.
C24_FallbackIsDataRowCount ==
  [][\A w \in Appenders :
       (LedgerNumber(w) /\ LastRowUnparsable(csv)) =>
         ap'[w].number = Max2(1, Len(csv.lines) - 1)]_vars

\* C24 amended: in that case _next_record_number returns one more than the
\* file's line count minus one header line, i.e. the line count itself (at
\* least 2 here, so the floor at 1 never applies).
C24_FallbackIsLineCount ==
  [][\A w \in Appenders :
       (LedgerNumber(w) /\ LastRowUnparsable(csv)) =>
         /\ ap'[w].number = (Len(csv.lines) - 1) + 1
         /\ ap'[w].number >= 2
         /\ ap'[w].row.first = str(Len(csv.lines))]_vars

\* C24 witness: the one caller so far has numbered its row 3 on the ledger
\* header, row 1, row x.
C24_Witness ==
  /\ appends = 1
  /\ csv.lines = <<header, R(1), BadRow>>
  /\ \E w \in Appenders : ap[w].pc = "exists" /\ ap[w].number = 3

\* C20: each call of append_emulation_record adds exactly one data row at
\* the end of the ledger (after the header when it creates the file), leaves
\* every earlier line as it was, and returns the row that is now the last
\* line of the file.
C20_AppendsExactlyOneRow ==
  [][\A w \in Appenders :
       (ap[w].pc = "write" /\ ap'[w].pc = "returned") =>
         /\ Len(csv'.lines) >= Len(csv.lines) + 1
         /\ SubSeq(csv'.lines, 1, Len(csv.lines)) = csv.lines
         /\ csv'.lines[Len(csv'.lines)] = ap'[w].row
         /\ Len(csv'.lines) = Len(csv.lines) + (IF ap[w].write_header THEN 2 ELSE 1)
         /\ ap[w].write_header => csv'.lines[Len(csv.lines) + 1] = header]_vars

----------------------------------------------------------------------------
(* The run store, firmae_lib/sqlite_helper.py. Each call opens its own     *)
(* connection and commits once: it takes effect whole or not at all.       *)
(* Timestamps are left out.                                                *)

\* Stands for max_content = 200_000: the length at which content is cut.
MaxContent == 3
MaxRows == 2

TruncationMarker ==
  <<"\n", "\n", "[", "t", "r", "u", "n", "c", "a", "t", "e", "d", "]">>

Schema == {"runs", "analyses", "analyses_fts"}

EmptyDb == [tables |-> {}, runs |-> <<>>, analyses |-> <<>>, analyses_fts |-> <<>>]

kb_init_recreates(d) == [EmptyDb EXCEPT !.tables = Schema]

\* CREATE TABLE IF NOT EXISTS ...; CREATE VIRTUAL TABLE IF NOT EXISTS ...
kb_init(d) == [d EXCEPT !.tables = @ \cup Schema]

\* INTEGER PRIMARY KEY AUTOINCREMENT: one more than the largest id so far.
lastrowid(tbl) == MaxOf({ tbl[i].id : i \in DOMAIN tbl }) + 1

Take(content, n) == SubSeq(content, 1, IF Len(content) < n THEN Len(content) ELSE n)

bounded_cuts_at_max(content, max_content) ==
  IF Len(content) < max_content THEN content
  ELSE Take(content, max_content) \o TruncationMarker

\* content if len(content) <= max_content else content[:max_content] + marker
bounded(content, max_content) ==
  IF Len(content) <= max_content THEN content
  ELSE Take(content, max_content) \o TruncationMarker

RunRow(id, brand, firmware, iid_dir, exit_code, result_bool) ==
  [id |-> id, brand |-> brand, model |-> None, firmware |-> firmware,
   iid_dir |-> iid_dir, exit_code |-> exit_code,
   result_bool |-> IF result_bool THEN 1 ELSE 0]

\* kb_insert_run: kb_init, INSERT INTO runs, commit; returns cur.lastrowid.
kb_insert_run(d, brand, firmware, iid_dir, exit_code, result_bool) ==
  LET d1 == kb_init(d) IN
  [d1 EXCEPT !.runs = Append(@, RunRow(lastrowid(d1.runs), brand, firmware,
                                       iid_dir, exit_code, result_bool))]

\* kb_insert_analysis: kb_init, INSERT INTO analyses, INSERT INTO
\* analyses_fts with the same rowid, commit. The schema declares run_id as a
\* reference to runs(id), but no connection turns foreign_keys on, so the
\* insert does not look run_id up.
kb_insert_analysis(d, run_id, source, summary, content, reasons_json, max_content) ==
  LET d1 == kb_init(d)
      rowid == lastrowid(d1.analyses)
      text == bounded(content, max_content)
  IN  [d1 EXCEPT
         !.analyses = Append(@, [id |-> rowid, run_id |-> run_id, source |-> source,
                                 summary |-> summary, content |-> text,
                                 reasons_json |-> reasons_json]),
         !.analyses_fts = Append(@, [rowid |-> rowid, summary |-> summary,
                                     content |-> text])]

\* How a store call can end: committed; or an sqlite3 error raised before
\* kb_init took effect, or after it and before the commit of the insert.
KbOutcomes == {"ok", "init_failed", "insert_failed"}

KbFailed(d, how) == IF how = "init_failed" THEN d ELSE kb_init(d)

Letters == <<"a", "b", "c", "d", "e", "f", "g", "h", "i", "j">>

\* The texts handed to the store: for every length up to two past the cut,
\* one text starting at "a" and one starting at "b".
Contents ==
  { SubSeq(Letters, k, k + n - 1) : k \in 1..2, n \in 0..(MaxContent + 2) }

KbIdle == [op |-> "none", how |-> "ok", content |-> <<>>, run_id |-> 0, ret |-> 0]

KbInit ==
  /\ db' = kb_init(db)
  /\ kb' = [KbIdle EXCEPT !.op = "init"]
  /\ UNCHANGED <<dvars, pvars, rc, lvars, hvars>>

KbInsertRun(exit_code, how) ==
  /\ Len(db.runs) < MaxRows
  /\ db' = IF how = "ok"
             THEN kb_insert_run(db, "b", "fw", None, exit_code, exit_code = 0)
             ELSE KbFailed(db, how)
  /\ kb' = [KbIdle EXCEPT !.op = "run", !.how = how,
                          !.ret = IF how = "ok" THEN lastrowid(db.runs) ELSE 0]
  /\ UNCHANGED <<dvars, pvars, rc, lvars, hvars>>

\* The caller passes any run id: the store does not look it up.
KbInsertAnalysis(run_id, content, how) ==
  /\ Len(db.analyses) < MaxRows
  /\ db' = IF how = "ok"
             THEN kb_insert_analysis(db, run_id, "summary", "Emulation summary",
                                     content, None, MaxContent)
             ELSE KbFailed(db, how)
  /\ kb' = [KbIdle EXCEPT !.op = "analysis", !.how = how, !.content = content,
                          !.run_id = run_id,
                          !.ret = IF how = "ok" THEN lastrowid(db.analyses) ELSE 0]
  /\ UNCHANGED <<dvars, pvars, rc, lvars, hvars>>

KNext ==
  \/ KbInit
  \/ \E e \in {0, 1}, how \in KbOutcomes : KbInsertRun(e, how)
  \/ \E r \in 1..MaxRows, c \in Contents, how \in KbOutcomes :
       KbInsertAnalysis(r, c, how)

\* C8: after any sequence of kb_init, kb_insert_run and kb_insert_analysis
\* calls, every row of analyses has a run_id that is the id of an existing
\* row of runs.
C8_AnalysisReferencesExistingRun ==
  \A i \in DOMAIN db.analyses :
    \E j \in DOMAIN db.runs : db.runs[j].id = db.analyses[i].run_id

IsPrefix(a, b) == Len(a) <= Len(b) /\ \A i \in DOMAIN a : a[i] = b[i]

\* C17: kb_init on a store that already has the schema and rows changes
\* nothing: applied again it yields the same store, and a kb_init step leaves
\* the tables, the full-text index and all rows as they were; no call of the
\* store removes or alters an earlier row of runs, analyses or the index.
C17_InitKeepsSchemaAndRows ==
  [][ /\ IsPrefix(db.runs, db'.runs)
      /\ IsPrefix(db.analyses, db'.analyses)
      /\ IsPrefix(db.analyses_fts, db'.analyses_fts)
      /\ db.tables \subseteq db'.tables
      /\ kb_init(kb_init(db')) = kb_init(db')
      /\ (kb'.op = "init" /\ db.tables = Schema) => db' = db
      /\ kb'.op = "init" =>
           /\ db'.tables = Schema
           /\ db'.runs = db.runs /\ db'.analyses = db.analyses
           /\ db'.analyses_fts = db.analyses_fts ]_vars

\* C17 witness: kb_init has just been called on a store that held the schema,
\* a run and an analysis, and an insert (which calls kb_init first) followed
\* an earlier row.
C17_Witness ==
  /\ kb.op = "init"
  /\ db.tables = Schema
  /\ Len(db.runs) = 2 /\ Len(db.analyses) >= 1

\* C9: kb_insert_analysis stores content verbatim when it is no longer than
\* max_content and otherwise its first max_content characters followed by
\* the truncation marker; the stored text is never longer than max_content
\* plus the marker, and the full-text index holds the same text under the
\* same rowid.
C9_ContentTruncatedAtMax ==
  /\ (kb.op = "analysis" /\ kb.how = "ok") =>
       LET row == db.analyses[Len(db.analyses)]
           given == kb.content
       IN  /\ row.id = kb.ret
           /\ Len(given) <= MaxContent => row.content = given
           /\ Len(given) > MaxContent =>
                /\ Len(row.content) = MaxContent + Len(TruncationMarker)
                /\ \A i \in 1..MaxContent : row.content[i] = given[i]
                /\ \A j \in 1..Len(TruncationMarker) :
                     row.content[MaxContent + j] = TruncationMarker[j]
  /\ \A i \in DOMAIN db.analyses :
       /\ Len(db.analyses[i].content) <= MaxContent + Len(TruncationMarker)
       /\ Len(db.analyses_fts) = Len(db.analyses)
       /\ db.analyses_fts[i].rowid = db.analyses[i].id
       /\ db.analyses_fts[i].content = db.analyses[i].content

\* C9 witness: a text of exactly max_content letters was stored verbatim
\* after a longer one was cut.
C9_Witness ==
  /\ kb.op = "analysis" /\ kb.how = "ok"
  /\ Len(kb.content) = MaxContent
  /\ Len(db.analyses) = 2
  /\ Len(db.analyses[1].content) = MaxContent + Len(TruncationMarker)
  /\ db.analyses[2].content = kb.content

----------------------------------------------------------------------------
(* The initialize branch and choose_version (firmae_mcp.py:11-23,          *)
(* 1042-1052). A Python str is the sequence of its characters; a JSON      *)
(* value is [t, v] with t its type and v its text.                         *)

MaxInits == 2

V2024 == <<"2", "0", "2", "4", "-", "1", "1", "-", "0", "5">>
V2025 == <<"2", "0", "2", "5", "-", "0", "3", "-", "2", "6">>
V2023 == <<"2", "0", "2", "3", "-", "0", "1", "-", "0", "1">>
V2025b == <<"2", "0", "2", "5", "-", "0", "3", "-", "2", "7">>

SUPPORTED == {V2025, V2024}

\* ord(c) for the characters of a version string.
Ord(c) == IF c = "-" THEN 45 ELSE 48 + DigitVal(c)

\* a < b for two Python strings.
RECURSIVE StrLess(_, _)
StrLess(a, b) ==
  IF b = <<>> THEN FALSE
  ELSE IF a = <<>> THEN TRUE
  ELSE IF Ord(Head(a)) # Ord(Head(b)) THEN Ord(Head(a)) < Ord(Head(b))
  ELSE StrLess(Tail(a), Tail(b))

sorted_first(S) == CHOOSE x \in S : \A y \in S : y = x \/ StrLess(x, y)

\* sorted(S)[-1]
sorted_last(S) == CHOOSE x \in S : \A y \in S : y = x \/ StrLess(y, x)

JStr(s) == [t |-> "str", v |-> s]
JInt(s) == [t |-> "int", v |-> s]
JNull == [t |-> "null", v |-> <<>>]
JList == [t |-> "list", v |-> <<"1">>]

\* bool(x) for a JSON value.
Truthy(x) ==
  CASE x.t = "null" -> FALSE
    [] x.t = "str" -> x.v # <<>>
    [] x.t = "int" -> x.v # <<"0">>
    [] OTHER -> x.v # <<>>

\* hash(x) does not raise.
Hashable(x) == x.t \notin {"list", "dict"}

choose_version_oldest(req) ==
  IF req.t = "str" /\ req.v \in SUPPORTED THEN req.v ELSE sorted_first(SUPPORTED)

\* choose_version(req), for a hashable req.
choose_version(req) ==
  IF req.t = "str" /\ req.v \in SUPPORTED THEN req.v ELSE sorted_last(SUPPORTED)

\* params of an initialize request: not an object; an object without
\* protocolVersion; an object with protocolVersion pv.
Params(isdict, has, pv) == [isdict |-> isdict, has |-> has, pv |-> pv]

InitParams ==
  { Params(FALSE, FALSE, JNull), Params(TRUE, FALSE, JNull) }
  \cup { Params(TRUE, TRUE, pv) :
           pv \in { JStr(V2024), JStr(V2025), JStr(V2023), JStr(V2025b),
                    JStr(<<"2", "0", "2", "5">>), JStr(<<>>), JNull,
                    JInt(<<"0">>), JInt(<<"5">>), JList } }

\* params.get("protocolVersion") or "2024-11-05"
Requested(p) == IF p.has /\ Truthy(p.pv) THEN p.pv ELSE JStr(V2024)

\* The reply of the initialize branch to a request with id mid: a result
\* with protocolVersion, or the except handler's error when params has no
\* .get or the requested version cannot be hashed.
InitializeReply(mid, p) ==
  IF ~p.isdict \/ ~Hashable(Requested(p))
    THEN [id |-> mid, kind |-> "error", code |-> "-32603", protocolVersion |-> <<>>]
    ELSE [id |-> mid, kind |-> "result", code |-> "",
          protocolVersion |-> choose_version(Requested(p))]

Initialize(mid, p) ==
  /\ Len(ini) < MaxInits
  /\ ini' = Append(ini, [params |-> p, reply |-> InitializeReply(mid, p)])
  /\ UNCHANGED <<dvars, al, sq, rc, lvars, kvars, hvars>>

INext == \E mid \in Ids, p \in InitParams : Initialize(mid, p)

----------------------------------------------------------------------------
(* _analyze_logs (analysis.py:34-65). A log tail is the sequence of its    *)
(* lines; text_by_name is a dict, i.e. the sequence of its (name, text)    *)
(* items in insertion order. A regular expression is given by the lines of *)
(* LogLines it finds a match in: no pattern can match across a newline.    *)

MaxAnalyzeCalls == 2

LogNames == {"makeNetwork.log", "qemu.final.serial.log"}

LogLines ==
  { "Kernel panic - not syncing", "Network reachable on 10.0.0.1",
    "Network reachable on router", "Web service on 10.0.0.1 down",
    "Web service on 10.0.0.1 up", "web service on 10.0.0.1 failed",
    "mount: /dev/loop0 failed", "Exec format error",
    "tap0: Permission denied", "Connection timed out", "booting" }

Pattern(title, hits) == [title |-> title, hits |-> hits]

PATTERNS ==
  << Pattern("Filesystem image build error", {"mount: /dev/loop0 failed"}),
     Pattern("Architecture / binfmt issue", {"Exec format error"}),
     Pattern("QEMU boot/kernel failure", {"Kernel panic - not syncing"}),
     Pattern("Network bridging/tap error", {"tap0: Permission denied"}),
     Pattern("Permission / capability problem", {"tap0: Permission denied"}),
     Pattern("Timeout / watchdog", {"Connection timed out"}),
     Pattern("Web service did not come up",
             {"Web service on 10.0.0.1 down", "web service on 10.0.0.1 failed"}) >>

\* r"Network reachable on \d+\.\d+\.\d+\.\d+"
ReachablePattern == {"Network reachable on 10.0.0.1"}

\* r"Web service on .*" (searched without re.I)
WebOnPattern == {"Web service on 10.0.0.1 down", "Web service on 10.0.0.1 up"}

NotDetected == "Network reachable but web service not detected"

\* The labels in the order of Python's str comparison.
TextOrder ==
  << "Architecture / binfmt issue", "Filesystem image build error",
     "Network bridging/tap error", "Network reachable but web service not detected",
     "Permission / capability problem", "QEMU boot/kernel failure",
     "Timeout / watchdog", "Web service did not come up" >>

Rank(t) == CHOOSE i \in DOMAIN TextOrder : TextOrder[i] = t

Without(q, m) == SubSeq(q, 1, m - 1) \o SubSeq(q, m + 1, Len(q))

unsorted(q) == q

\* sorted(q)
RECURSIVE sorted(_)
sorted(q) ==
  IF q = <<>> THEN <<>>
  ELSE LET m == CHOOSE i \in DOMAIN q : \A j \in DOMAIN q : Rank(q[i]) <= Rank(q[j])
       IN  <<q[m]>> \o sorted(Without(q, m))

Range(q) == { q[i] : i \in DOMAIN q }

\* iter(set(q)): the elements once each, in an order that depends on the
\* hash seed of the process.
SetIterations(S) ==
  { q \in [1..Cardinality(S) -> S] : Range(q) = S }

Item(name, text) == [name |-> name, text |-> text]

\* re.search(pat, text)
re_search(hits, text) == \E i \in DOMAIN text : text[i] \in hits

\* "\n".join(v for v in text_by_name.values() if v)
RECURSIVE combined(_)
combined(d) ==
  IF d = <<>> THEN <<>> ELSE Head(d).text \o combined(Tail(d))

mk_any(d) == combined(d)

\* text_by_name.get("makeNetwork.log", "")
mk(d) ==
  IF \E i \in DOMAIN d : d[i].name = "makeNetwork.log"
    THEN d[CHOOSE i \in DOMAIN d : d[i].name = "makeNetwork.log"].text
    ELSE <<>>

\* reasons before the final sorted(set(...)): the titles in the order of
\* PATTERNS, then the special label.
reasons_appended(d) ==
  LET titles == [i \in DOMAIN PATTERNS |-> PATTERNS[i].title]
      hit(i) == re_search(PATTERNS[i].hits, combined(d))
      RECURSIVE upto(_)
      upto(n) == IF n = 0 THEN <<>>
                 ELSE upto(n - 1) \o (IF hit(n) THEN <<titles[n]>> ELSE <<>>)
  IN  upto(Len(PATTERNS))
      \o (IF /\ mk(d) # <<>>
             /\ re_search(ReachablePattern, mk(d))
             /\ ~re_search(WebOnPattern, combined(d))
            THEN <<NotDetected>> ELSE <<>>)

\* The values _analyze_logs can return: sorted(set(reasons)), for every
\* iteration order of the set.
_analyze_logs(d) ==
  { sorted(q) : q \in SetIterations(Range(reasons_appended(d))) }

Texts == {<<>>} \cup { <<l>> : l \in LogLines }

\* The dicts over LogNames, in every insertion order.
TextDicts ==
  {<<>>}
  \cup { <<Item(n, t)>> : n \in LogNames, t \in Texts }
  \cup { d \in { <<Item(n1, t1), Item(n2, t2)>> :
                    n1 \in LogNames, n2 \in LogNames, t1 \in Texts, t2 \in Texts } :
           d[1].name # d[2].name }

Analyze(d, ret) ==
  /\ Len(al) < MaxAnalyzeCalls
  /\ ret \in _analyze_logs(d)
  /\ al' = Append(al, [bundle |-> d, ret |-> ret])
  /\ UNCHANGED <<dvars, ini, sq, rc, lvars, kvars, hvars>>

ANext ==
  \E d \in TextDicts : \E ret \in _analyze_logs(d) : Analyze(d, ret)

HasName(d, n) == \E i \in DOMAIN d : d[i].name = n

\* name -> text of a dict, whatever its insertion order.
TextOf(d, n) == d[CHOOSE i \in DOMAIN d : d[i].name = n].text

SameTexts(d, e) ==
  \A n \in LogNames :
    /\ HasName(d, n) = HasName(e, n)
    /\ HasName(d, n) => TextOf(d, n) = TextOf(e, n)

\* C18: _analyze_logs is a function of the texts per log name: two calls with
\* dicts that hold the same text per name return the same labels in the
\* same order, whatever the insertion order of the dicts and the iteration
\* order of the set of labels; a dict that is empty or holds only empty
\* tails returns the empty list.
C18_AnalysisIsDeterministic ==
  /\ \A i, j \in DOMAIN al :
       SameTexts(al[i].bundle, al[j].bundle) => al[i].ret = al[j].ret
  /\ \A i \in DOMAIN al :
       (\A k \in DOMAIN al[i].bundle : al[i].bundle[k].text = <<>>) =>
         al[i].ret = <<>>

\* C18 witness: two calls with the same two tails inserted in opposite
\* order returned the same two labels.
C18_Witness ==
  /\ Len(al) = 2
  /\ Len(al[1].bundle) = 2
  /\ al[2].bundle = <<al[1].bundle[2], al[1].bundle[1]>>
  /\ al[1].bundle[1].text = <<"mount: /dev/loop0 failed">>
  /\ al[1].bundle[2].text = <<"Exec format error">>
  /\ al[1].ret = <<"Architecture / binfmt issue", "Filesystem image build error">>
  /\ al[2].ret = al[1].ret

\* The lines of all the tails of a dict.
AllLines(d) == UNION { Range(d[i].text) : i \in DOMAIN d }

\* The labels a dict must get: the title of every rule whose pattern matches
\* some line of some tail, and the special label when makeNetwork.log holds a
\* numeric reachable address and no tail holds a "Web service on" report.
ExpectedLabels(d) ==
  { PATTERNS[i].title : i \in { k \in DOMAIN PATTERNS : AllLines(d) \cap PATTERNS[k].hits # {} } }
  \cup (IF /\ \E i \in DOMAIN d :
                /\ d[i].name = "makeNetwork.log"
                /\ Range(d[i].text) \cap ReachablePattern # {}
           /\ AllLines(d) \cap WebOnPattern = {}
          THEN {NotDetected} ELSE {})

\* C19: the list _analyze_logs returns is in ascending text order without
\* duplicates and holds exactly the expected labels; a dict whose only text
\* is a kernel panic gets exactly ["QEMU boot/kernel failure"].
C19_ExactlyTheMatchingLabels ==
  \A i \in DOMAIN al :
    LET d == al[i].bundle
        ret == al[i].ret
    IN  /\ \A a, b \in DOMAIN ret : a < b => Rank(ret[a]) < Rank(ret[b])
        /\ Range(ret) = ExpectedLabels(d)
        /\ AllLines(d) = {"Kernel panic - not syncing"} =>
             ret = <<"QEMU boot/kernel failure">>

\* C19 witness: a reachable address in makeNetwork.log next to a lower-case
\* web service failure in another log gave both labels, in text order; and
\* a reachable address in a log other than makeNetwork.log gave none.
C19_Witness ==
  /\ Len(al) = 2
  /\ al[1].bundle = <<Item("qemu.final.serial.log", <<"web service on 10.0.0.1 failed">>),
                      Item("makeNetwork.log", <<"Network reachable on 10.0.0.1">>)>>
  /\ al[1].ret = <<NotDetected, "Web service did not come up">>
  /\ al[2].bundle = <<Item("qemu.final.serial.log", <<"Network reachable on 10.0.0.1">>)>>
  /\ al[2].ret = <<>>

----------------------------------------------------------------------------
(* handle_call, the firmae.emulate branch (firmae_mcp.py:104-210), run by  *)
(* worker threads: validation, run_cmd, the ledger row, the failure        *)
(* analysis, the two store inserts, the reply.                             *)

NEmu == 2
MaxEmuCalls == 2

EmuWorkers == 1..NEmu

\* The arguments of a call: brand or firmware_file missing, a firmware path
\* that does not exist, or valid ones.
EmuArgs == {"missing", "nofile", "valid"}

\* What ./run.sh can do under run_cmd(cmd, args, timeout).
EmuEvents ==
  { Event("completed", 0, Some(<<"a">>), Some(<<>>), ""),
    Event("completed", 1, Some(<<>>), Some(<<"a">>), ""),
    Event("timeout", 0, Some(<<"a">>), Nothing, ""),
    Event("undecodable", 0, Nothing, Nothing, DecodeError) }

\* What _collect_failure_context finds in scratch/: no numeric directory; a
\* directory without logs; logs. reasons is what _analyze_logs returns for
\* the tails.
Bundle(iid_dir, tails, reasons) ==
  [iid_dir |-> iid_dir, tails |-> tails, reasons |-> reasons]

LogBundles ==
  { Bundle(None, <<>>, <<>>),
    Bundle("scratch/1", <<>>, <<>>),
    Bundle("scratch/1", <<"--- qemu.final.serial.log (tail) ---", "Kernel panic">>,
           <<"QEMU boot/kernel failure">>) }

NoBundle == Bundle(None, <<>>, <<>>)

ToolResult(text, isError) == [text |-> text, isError |-> isError]

\* args, ev, launches and append_calls are history fields: the arguments of
\* the call, what its launch did, and how often the call has entered run_cmd
\* and append_emulation_record.
HIdle == [pc |-> "idle", args |-> "none", ev |-> NoEvent, launches |-> 0,
          append_calls |-> 0,
          res |-> NoOutcome, is_error |-> FALSE, csv_note |-> "",
          wrote |-> "none", iid_dir |-> None, reasons |-> <<>>,
          analysis_block |-> <<>>, lines |-> <<>>, run_id |-> 0,
          kb_run |-> "none", kb_analysis |-> "none",
          reply |-> ToolResult(<<>>, FALSE)]

AppendedNote == "[+] Emulation record appended to emulation_records.csv"
AppendFailedNote == "[!] Failed to append emulation record"
KbFailedNote == "[KB] Failed to persist analysis"

ValidatedWithoutFileCheck(a) == a # "missing"

\* Lines 108-121: brand and firmware_file are there and the path exists.
Validated(a) == a = "valid"

\* Lines 104-125: the branch is entered and the arguments are checked.
EmuCall(w, a) ==
  /\ h[w].pc = "idle"
  /\ emucalls < MaxEmuCalls
  /\ emucalls' = emucalls + 1
  /\ h' = [h EXCEPT ![w] =
             IF Validated(a) THEN [HIdle EXCEPT !.pc = "run_cmd", !.args = a]
             ELSE IF a = "missing"
               THEN [HIdle EXCEPT !.pc = "returned", !.args = a,
                       !.reply = ToolResult(<<"Missing brand or firmware_file">>, TRUE)]
               ELSE [HIdle EXCEPT !.pc = "returned", !.args = a,
                       !.reply = ToolResult(<<"Firmware file not found">>, TRUE)]]
  /\ UNCHANGED <<dvars, pvars, rc, lvars, kvars>>

\* is_error = (result_truth is False) if (result_truth is not None) else
\* (rc != 0), with result_truth = None.
is_error(res) == res.code # 0

AfterRunCmdRetries(res) == IF res.code # 0 THEN "run_cmd" ELSE "append"

\* Line 128 is followed by line 129: the result is taken as it is.
AfterRunCmd(res) == "append"

\* Lines 128-139: run_cmd, is_error from the exit code (result_truth is
\* None), and the call of append_emulation_record.
EmuRunCmd(w, ev) ==
  /\ h[w].pc = "run_cmd"
  /\ ap[w].pc = "idle"
  /\ LET res == run_cmd(ev) IN
     /\ h' = [h EXCEPT ![w].pc = AfterRunCmd(res), ![w].res = res,
                       ![w].ev = ev,
                       ![w].launches = @ + 1,
                       ![w].append_calls = @ + 1,
                       ![w].is_error = is_error(res)]
     /\ ap' = [ap EXCEPT ![w] = [ApIdle EXCEPT !.pc = "number",
                                               !.exit_code = res.code]]
  /\ appends' = appends + 1
  /\ UNCHANGED <<dvars, pvars, rc, csv, kvars, emucalls>>

\* Lines 149-166: the text of the failure analysis.
AnalysisBlock(b) ==
  IF b.iid_dir = None \/ b.tails = <<>>
    THEN <<"[analysis] Emulation appears to have failed before logs were produced">>
    ELSE (IF b.reasons # <<>> THEN <<"**Failure analysis (heuristics):**">> \o b.reasons
                              ELSE <<"**Failure analysis:**">>)
         \o b.tails

\* Lines 140-176: append_emulation_record has returned (it raises nothing:
\* it swallows the failure of its own write), so csv_note reports success;
\* then the failure analysis and the lines of the reply.
EmuAppended(w, b) ==
  /\ h[w].pc = "append"
  /\ ap[w].pc = "returned"
  /\ b \in (IF h[w].is_error THEN LogBundles ELSE {NoBundle})
  /\ LET block == IF h[w].is_error THEN AnalysisBlock(b) ELSE <<>>
         res == h[w].res
     IN  h' = [h EXCEPT ![w].pc = "kb_run",
                        ![w].csv_note = AppendedNote,
                        ![w].wrote = ap[w].wrote,
                        ![w].iid_dir = b.iid_dir,
                        ![w].reasons = b.reasons,
                        ![w].analysis_block = block,
                        ![w].lines = (IF res.out # <<>> THEN <<"stdout">> ELSE <<>>)
                                     \o (IF res.err # <<>> THEN <<"[stderr]">> ELSE <<>>)
                                     \o (IF block # <<>> THEN <<"analysis">> ELSE <<>>)
                                     \o <<"[exit]", AppendedNote>>]
  /\ ap' = [ap EXCEPT ![w] = ApIdle]
  /\ UNCHANGED <<dvars, pvars, rc, csv, appends, kvars, emucalls>>

\* Lines 179-205: one try block around both inserts: when kb_insert_run
\* raises, kb_insert_analysis is skipped.
AfterRunInsertSkipsAnalysis(how) == "return"

AfterRunInsert(how) == IF how = "ok" THEN "kb_analysis" ELSE "return"

EmuKbRun(w, how) ==
  /\ h[w].pc = "kb_run"
  /\ db' = IF how = "ok"
             THEN kb_insert_run(db, "b", "fw",
                                IF h[w].is_error THEN h[w].iid_dir ELSE None,
                                h[w].res.code, ~h[w].is_error)
             ELSE KbFailed(db, how)
  /\ h' = [h EXCEPT ![w].pc = AfterRunInsert(how),
                    ![w].kb_run = how,
                    ![w].run_id = IF how = "ok" THEN lastrowid(kb_init(db).runs) ELSE @,
                    ![w].lines = IF how = "ok" THEN @ ELSE Append(@, KbFailedNote)]
  /\ UNCHANGED <<dvars, pvars, rc, lvars, kb, emucalls>>

\* content = analysis_block or (out.strip()[:2000] if out else "[no analysis text]")
AnalysisContent(hw) ==
  IF hw.analysis_block # <<>> THEN hw.analysis_block
  ELSE IF hw.res.out # <<>> THEN Take(hw.res.out, 2000)
  ELSE <<"[no analysis text]">>

EmuKbAnalysis(w, how) ==
  /\ h[w].pc = "kb_analysis"
  /\ db' = IF how = "ok"
             THEN kb_insert_analysis(db, h[w].run_id,
                    IF h[w].is_error THEN "heuristic" ELSE "summary",
                    IF h[w].is_error THEN "Emulation failure analysis"
                                     ELSE "Emulation summary",
                    AnalysisContent(h[w]),
                    IF h[w].is_error THEN h[w].reasons ELSE <<>>,
                    MaxContent)
             ELSE KbFailed(db, how)
  /\ h' = [h EXCEPT ![w].pc = "return",
                    ![w].kb_analysis = how,
                    ![w].lines = IF how = "ok" THEN @ ELSE Append(@, KbFailedNote)]
  /\ UNCHANGED <<dvars, pvars, rc, lvars, kb, emucalls>>

\* Lines 207-210: return {"content": [...], "isError": is_error}
EmuReturn(w) ==
  /\ h[w].pc = "return"
  /\ h' = [h EXCEPT ![w].pc = "returned",
                    ![w].reply = ToolResult(h[w].lines, h[w].is_error)]
  /\ UNCHANGED <<dvars, pvars, rc, lvars, kvars, emucalls>>

\* run_and_reply has taken the result; the worker is free for another call.
EmuDone(w) ==
  /\ h[w].pc = "returned"
  /\ h' = [h EXCEPT ![w] = HIdle]
  /\ UNCHANGED <<dvars, pvars, rc, lvars, kvars, emucalls>>

ENext ==
  \/ \E w \in EmuWorkers, a \in EmuArgs : EmuCall(w, a)
  \/ \E w \in EmuWorkers, ev \in EmuEvents : EmuRunCmd(w, ev)
  \/ \E w \in EmuWorkers : LedgerNumber(w)
  \/ \E w \in EmuWorkers : LedgerCheckHeader(w)
  \/ \E w \in EmuWorkers, how \in WriteOutcomes : LedgerWrite(w, how)
  \/ \E w \in EmuWorkers, b \in LogBundles : EmuAppended(w, b)
  \/ \E w \in EmuWorkers, how \in KbOutcomes : EmuKbRun(w, how)
  \/ \E w \in EmuWorkers, how \in KbOutcomes : EmuKbAnalysis(w, how)
  \/ \E w \in EmuWorkers : EmuReturn(w)
  \/ \E w \in EmuWorkers : EmuDone(w)

\* The lines of the ledger that are data rows.
DataRows(f) == SelectSeq(f.lines, LAMBDA ln : ln # header /\ ln # BlankLine)

\* C21: after any sequence of append_emulation_record calls starting from an
\* absent ledger, concurrent ones included, the ledger holds exactly one
\* header row and it is the first line.
C21_OneHeaderFirst ==
  csv.lines # <<>> =>
    /\ csv.lines[1] = header
    /\ \A i \in DOMAIN csv.lines : i > 1 => csv.lines[i] # header

\* C23: the derivation of the sequence number and the write of the row are
\* not atomic: a caller about to read the ledger can always do so, also
\* while others are between their read and their write, and the row a caller
\* writes carries the number it derived when it read.
C23_NumberingIsNotAtomic ==
  \A w \in Appenders :
    /\ ap[w].pc = "number" => ENABLED LedgerNumber(w)
    /\ ap[w].pc \in {"exists", "write", "returned"} =>
         ap[w].row.first = str(ap[w].number)
    /\ (ap[w].pc = "returned" /\ ap[w].wrote = "ok") =>
         \E i \in DOMAIN csv.lines : csv.lines[i] = ap[w].row

\* C23 witness: two workers whose appends overlapped have both written a row
\* with the same sequence number.
C23_Witness ==
  /\ ap[1].pc = "returned" /\ ap[2].pc = "returned"
  /\ ap[1].wrote = "ok" /\ ap[2].wrote = "ok"
  /\ ap[1].number = ap[2].number
  /\ Len(DataRows(csv)) = 2
  /\ DataRows(csv)[1].first = DataRows(csv)[2].first

\* The second half of C8, for the one caller of the store: the emulate
\* handler calls kb_insert_analysis only after kb_insert_run succeeded, with
\* the id it returned, so the rows it writes reference existing runs.
HandlerAnalysisFollowsRun ==
  /\ \A w \in EmuWorkers :
       /\ h[w].pc = "kb_analysis" =>
            /\ h[w].kb_run = "ok"
            /\ \E j \in DOMAIN db.runs : db.runs[j].id = h[w].run_id
       /\ h[w].kb_run # "ok" => h[w].kb_analysis = "none"
  /\ \A i \in DOMAIN db.analyses :
       \E j \in DOMAIN db.runs : db.runs[j].id = db.analyses[i].run_id

HasNote(lines, note) == \E i \in DOMAIN lines : lines[i] = note

\* C10: during a firmae.emulate call, whenever the write of the ledger row
\* fails or an insert into the run store fails, the call still returns its
\* normal reply and the reply text holds a note reporting that failure; a
\* failed ledger write is never reported as "record appended".
C10_PersistenceFailuresAreReported ==
  \A w \in EmuWorkers :
    h[w].pc = "returned" =>
      /\ h[w].wrote \in {"open_failed", "write_failed"} =>
           /\ HasNote(h[w].reply.text, AppendFailedNote)
           /\ ~HasNote(h[w].reply.text, AppendedNote)
      /\ (h[w].kb_run \in {"init_failed", "insert_failed"}
            \/ h[w].kb_analysis \in {"init_failed", "insert_failed"}) =>
           HasNote(h[w].reply.text, KbFailedNote)

\* C27: one firmae.emulate request enters run_cmd, which launches the
\* command once, at most once, and append_emulation_record at most once,
\* whatever the launch did: a call that has not reached line 128, or whose
\* arguments were refused, has launched nothing, and every other call has
\* launched exactly once.
C27_AtMostOneLaunchPerRequest ==
  /\ appends <= emucalls
  /\ \A w \in EmuWorkers :
       /\ h[w].launches =
            (IF h[w].pc \in {"idle", "run_cmd"} \/ ~Validated(h[w].args) THEN 0 ELSE 1)
       /\ h[w].append_calls = h[w].launches

\* C27 witness: a call whose command timed out has returned after one launch.
C27_Witness ==
  \E w \in EmuWorkers :
    /\ h[w].pc = "returned"
    /\ h[w].ev.kind = "timeout"
    /\ h[w].res.code = 124
    /\ h[w].launches = 1 /\ h[w].append_calls = 1

RunsWithId(id) == { j \in DOMAIN db.runs : db.runs[j].id = id }

AnalysesOf(id) == { i \in DOMAIN db.analyses : db.analyses[i].run_id = id }

KbFailures == KbOutcomes \ {"ok"}

\* The calls that are through with the store, both writes committed.
Persisted == { w \in EmuWorkers : /\ h[w].pc \in {"return", "returned"}
                                  /\ Validated(h[w].args)
                                  /\ h[w].kb_run = "ok"
                                  /\ h[w].kb_analysis \notin KbFailures }

C28_Paired ==
  /\ \A i \in DOMAIN db.analyses :
       /\ Cardinality(RunsWithId(db.analyses[i].run_id)) = 1
       /\ Cardinality(AnalysesOf(db.analyses[i].run_id)) = 1
  /\ Len(db.analyses) <= Len(db.runs) /\ Len(db.runs) <= emucalls
  /\ \A w \in Persisted :
       /\ Cardinality(RunsWithId(h[w].run_id)) = 1
       /\ Cardinality(AnalysesOf(h[w].run_id)) = 1
  /\ \A v, w \in EmuWorkers :
       (v # w /\ h[v].kb_run = "ok" /\ h[w].kb_run = "ok") => h[v].run_id # h[w].run_id
  /\ Cardinality(Persisted) = emucalls =>
       Len(db.runs) = emucalls /\ Len(db.analyses) = emucalls

C28_Step ==
  /\ IsPrefix(db.runs, db'.runs)
  /\ IsPrefix(db.analyses, db'.analyses)
  /\ \A w \in EmuWorkers :
       /\ EmuKbRun(w, "ok") =>
            /\ Len(db'.runs) = Len(db.runs) + 1
            /\ db'.runs[Len(db'.runs)].id = h'[w].run_id
            /\ RunsWithId(h'[w].run_id) = {}
            /\ db'.analyses = db.analyses
       /\ EmuKbAnalysis(w, "ok") =>
            /\ Len(db'.analyses) = Len(db.analyses) + 1
            /\ db'.analyses[Len(db'.analyses)].run_id = h[w].run_id
            /\ RunsWithId(h[w].run_id) # {}
            /\ db'.runs = db.runs
       /\ \A how \in KbFailures :
            (EmuKbRun(w, how) \/ EmuKbAnalysis(w, how)) =>
              db'.runs = db.runs /\ db'.analyses = db.analyses

\* C28: a firmae.emulate call with valid arguments whose store writes
\* succeed adds exactly one row to runs and then exactly one row to analyses
\* that carries the id kb_insert_run returned; runs and analyses are paired
\* one to one, n such calls, one after the other or interleaved, leave n
\* rows in each table, and no step changes a row that is already there.
C28_OneRunOneAnalysisPerCall == []C28_Paired /\ [][C28_Step]_vars

\* C28 witness: two interleaved calls, both through with the store, the
\* second run inserted before the first analysis; two runs and two analyses.
C28_Witness ==
  /\ Persisted = {1, 2}
  /\ h[1].kb_analysis = "ok" /\ h[2].kb_analysis = "ok"
  /\ Len(db.runs) = 2 /\ Len(db.analyses) = 2
  /\ db.analyses[1].run_id = 2 /\ db.analyses[2].run_id = 1

\* The exit code of the process: the status the child exited with, or, when
\* it never came to exit, the code run_cmd gives the launch.
ProcessExitCode(ev) == IF ChildExited(ev) THEN ev.returncode ELSE run_cmd(ev).code

\* C29: the reply of a validated firmae.emulate call has isError exactly
\* when the exit code of the process is not 0; the Run row has result_bool =
\* not isError and a directory only when isError; the Analysis row has source
\* heuristic when isError and summary otherwise; the failure analysis is made
\* only when isError.
C29_IsErrorIffExitCodeNonZero ==
  \A w \in EmuWorkers :
    (h[w].pc = "returned" /\ Validated(h[w].args)) =>
      LET isError == h[w].reply.isError IN
      /\ isError = (ProcessExitCode(h[w].ev) # 0)
      /\ h[w].kb_run = "ok" =>
           \A j \in RunsWithId(h[w].run_id) :
             /\ db.runs[j].result_bool = (IF isError THEN 0 ELSE 1)
             /\ db.runs[j].iid_dir # None => isError
      /\ h[w].kb_analysis = "ok" =>
           \A i \in AnalysesOf(h[w].run_id) :
             db.analyses[i].source = (IF isError THEN "heuristic" ELSE "summary")
      /\ ~isError => h[w].reasons = <<>> /\ h[w].analysis_block = <<>>

C30_Refused ==
  \A w \in EmuWorkers :
    h[w].args \in {"missing", "nofile"} =>
      /\ h[w].pc = "returned"
      /\ h[w].reply.isError
      /\ h[w].launches = 0 /\ h[w].append_calls = 0
      /\ ap[w] = ApIdle
      /\ h[w].kb_run = "none" /\ h[w].kb_analysis = "none"

C30_RefusalStep ==
  \A w \in EmuWorkers, a \in {"missing", "nofile"} :
    EmuCall(w, a) =>
      /\ h'[w].pc = "returned" /\ h'[w].reply.isError
      /\ UNCHANGED <<rc, csv, ap, appends, db, kb>>

\* C30: a firmae.emulate call whose arguments fail validation returns a
\* tool result with isError = true and does nothing else: no launch, no call
\* of append_emulation_record, no row in runs or analyses.
C30_ValidationFailureHasNoEffect == []C30_Refused /\ [][C30_RefusalStep]_vars

\* C30 witness: the only call so far named a firmware file that does not
\* exist; it has returned, and ledger and store are as they were.
C30_Witness ==
  /\ emucalls = 1 /\ appends = 0
  /\ csv = Absent /\ db.runs = <<>> /\ db.analyses = <<>>
  /\ \E w \in EmuWorkers :
       h[w].pc = "returned" /\ h[w].args = "nofile" /\ h[w].reply.isError

----------------------------------------------------------------------------
(* append_emulation_record with the signal files of the scratch directory  *)
(* (logger.py:15-40, 82-154), called one call after the other. The text of *)
(* a file is [pad, upper, word]: the word in lower case, whether the text   *)
(* is in upper case, and whether white space surrounds it.                  *)

MaxSeqAppends == 3

Txt(pad, upper, word) == [pad |-> pad, upper |-> upper, word |-> word]

EmptyText == Txt(FALSE, FALSE, "")

\* s.strip(): of white space alone nothing is left.
strip(t) == [t EXCEPT !.pad = FALSE]

lower_keeps_case(t) == t

\* s.lower()
lower(t) == [t EXCEPT !.upper = FALSE]

\* _safe_read(path): the stripped text of the file, "" when it is absent.
_safe_read(t) == strip(t)

truthy == {"1", "true", "yes", "y", "ok", "success", "on", "reachable", "up"}
falsy == {"0", "false", "no", "n", "fail", "failed", "off", "unreachable", "down"}

\* float(s) for the words that are numerals: the value is zero or not.
ZeroNumerals == {"0", "0.0"}
NonZeroNumerals == {"1", "2"}

\* s in a set of lower-case words
InWords(t, words) == ~t.pad /\ ~t.upper /\ t.word \in words

\* _parse_bool(s): "True", "False" or None.
_parse_bool(t) ==
  LET s == lower(strip(t)) IN
  IF s.word = "" THEN None
  ELSE IF InWords(s, truthy) THEN "True"
  ELSE IF InWords(s, falsy) THEN "False"
  ELSE IF InWords(s, ZeroNumerals) THEN "False"
  ELSE IF InWords(s, NonZeroNumerals) THEN "True"
  ELSE None

\* The latest numeric directory under scratch/, with the text of six of its
\* files (EmptyText for an absent file); has = FALSE: there is none.
Dir(has, name, architecture, brand, ping, web, result) ==
  [has |-> has, name |-> name, architecture |-> architecture, brand |-> brand,
   ping |-> ping, web |-> web, result |-> result]

NoDir == Dir(FALSE, EmptyText, EmptyText, EmptyText, EmptyText, EmptyText, EmptyText)

SignalTexts ==
  { EmptyText, Txt(TRUE, FALSE, ""), Txt(FALSE, FALSE, "up"), Txt(TRUE, TRUE, "up"),
    Txt(FALSE, FALSE, "down"), Txt(FALSE, TRUE, "unreachable"),
    Txt(FALSE, FALSE, "true"), Txt(TRUE, FALSE, "false"),
    Txt(FALSE, FALSE, "2"), Txt(FALSE, FALSE, "0.0"), Txt(FALSE, FALSE, "garbage") }

Dirs ==
  { NoDir }
  \cup { Dir(TRUE, EmptyText, EmptyText, EmptyText, t, t, t) : t \in SignalTexts }
  \cup { Dir(TRUE, EmptyText, EmptyText, EmptyText,
             Txt(FALSE, FALSE, "up"), Txt(FALSE, FALSE, "down"), Txt(FALSE, FALSE, "true")),
         Dir(TRUE, Txt(TRUE, FALSE, "dir645"), Txt(FALSE, FALSE, "mipseb"),
             Txt(FALSE, FALSE, "dlink"), EmptyText, EmptyText, EmptyText) }

\* Lines 95-142: the row for a call, from the arguments and the directory.
RowFrom(number, exit_code, d) ==
  LET name_file == _safe_read(d.name)
      architecture_file == _safe_read(d.architecture)
      brand_file == _safe_read(d.brand)
      ping_file == _parse_bool(_safe_read(d.ping))
      web_file == _parse_bool(_safe_read(d.web))
      result_file == _parse_bool(_safe_read(d.result))
      firmware_name == IF d.has /\ name_file.word # "" THEN name_file.word ELSE "fw"
      architecture == IF d.has /\ architecture_file.word # "" THEN architecture_file.word
                      ELSE ""
      brand_val == IF d.has /\ brand_file.word # "" THEN brand_file.word ELSE "b"
      ping_bool == IF d.has /\ ping_file # None THEN ping_file = "True" ELSE FALSE
      web_bool == IF d.has /\ web_file # None THEN web_file = "True" ELSE FALSE
      result_bool == IF d.has /\ result_file # None THEN result_file = "True"
                     ELSE exit_code = 0
  IN  CsvLine(str(number),
              <<firmware_name, architecture, brand_val, _to_bool_str(ping_bool),
                _to_bool_str(web_bool), _to_bool_str(result_bool)>>)

\* append_emulation_record(firmae_home, fw_path, brand, exit_code) when its
\* write succeeds: the ledger afterwards and the row returned.
append_emulation_record(f, exit_code, d) ==
  LET row == RowFrom(_next_record_number(f), exit_code, d)
      write_header == ~f.exists
  IN  [file |-> File(TRUE, f.readable,
                     f.lines \o (IF write_header THEN <<header>> ELSE <<>>) \o <<row>>),
       row |-> row]

SqIdle == [n |-> 0, exit_code |-> 0, dir |-> NoDir, row |-> BlankLine, before |-> Absent]

\* One call, from entry to return, with no other call in between.
SeqAppend(exit_code, d) ==
  /\ sq.n < MaxSeqAppends
  /\ csv' = append_emulation_record(csv, exit_code, d).file
  /\ sq' = [n |-> sq.n + 1, exit_code |-> exit_code, dir |-> d,
            row |-> append_emulation_record(csv, exit_code, d).row,
            before |-> csv]
  /\ UNCHANGED <<dvars, ini, al, rc, ap, appends, kvars, hvars>>

SNext == \E e \in {0, 1}, d \in Dirs : SeqAppend(e, d)

\* C22: starting from an absent or empty ledger, n calls made one after the
\* other, none of them failing, leave data rows numbered 1, 2, ..., n in
\* file order.
C22_SequentialRowsNumberedFrom1 ==
  /\ Len(DataRows(csv)) = sq.n
  /\ \A i \in DOMAIN DataRows(csv) : DataRows(csv)[i].first = str(i)

\* The words that read as true and as false, whatever their case and the
\* white space around them.
TrueWords == truthy \cup NonZeroNumerals
FalseWords == falsy \cup ZeroNumerals

\* C25: in the row of a call each of ping, web and result is the literal
\* true or false read from the like-named file of the latest scratch
\* directory; when the file is absent, empty or not a truth word, ping and
\* web are false and result is (exit_code == 0). The row is the last line of
\* the ledger. With an empty ledger and the signals up, down, true the row
\* is number 1 with true, false, true.
C25_SignalsParsedIntoRow ==
  sq.n >= 1 =>
    LET d == sq.dir
        cell == sq.row.rest
        Read(t) == IF d.has /\ t.word \in TrueWords THEN "true"
                   ELSE IF d.has /\ t.word \in FalseWords THEN "false"
                   ELSE None
    IN  /\ cell[4] = (IF Read(d.ping) = None THEN "false" ELSE Read(d.ping))
        /\ cell[5] = (IF Read(d.web) = None THEN "false" ELSE Read(d.web))
        /\ cell[6] = (IF Read(d.result) = None
                        THEN (IF sq.exit_code = 0 THEN "true" ELSE "false")
                        ELSE Read(d.result))
        /\ csv.lines[Len(csv.lines)] = sq.row
        /\ sq.dir = NoDir => sq.row = Row(int(sq.row.first), sq.exit_code)
        /\ (/\ sq.before.lines = <<>>
            /\ d.has
            /\ d.ping.word = "up" /\ d.web.word = "down" /\ d.result.word = "true") =>
             /\ sq.row.first = str(1)
             /\ cell[4] = "true" /\ cell[5] = "false" /\ cell[6] = "true"

\* C25 witness: on an empty ledger a call that exited with 1 and found the
\* signals " UP ", " UP ", " UP " wrote row 1 with true, true, true.
C25_Witness ==
  /\ sq.n = 1
  /\ sq.before = File(TRUE, TRUE, <<>>)
  /\ sq.exit_code = 1
  /\ sq.dir.has /\ sq.dir.ping = Txt(TRUE, TRUE, "up")
  /\ sq.row.first = str(1)
  /\ sq.row.rest[4] = "true" /\ sq.row.rest[6] = "true"

\* Every specification starts from the state right after the module is loaded:
\* nothing read, nothing written, no call in progress.
Init ==
  /\ nread = 0
  /\ pc = "read"
  /\ cur = NoLine
  /\ msg = [kind |-> "unbound", id |-> None]
  /\ jw = [w \in Writers |-> Idle]
  /\ WRITE_LOCK = {}
  /\ out = <<>>
  /\ rc = RcIdle
  /\ csv = Absent
  /\ ap = [w \in Appenders |-> ApIdle]
  /\ appends = 0
  /\ db = EmptyDb
  /\ kb = KbIdle
  /\ h = [w \in EmuWorkers |-> HIdle]
  /\ emucalls = 0
  /\ ini = <<>>
  /\ al = <<>>
  /\ sq = SqIdle

Next == DNext

\* The server: the read loop and its worker threads.
Spec == Init /\ [][Next]_vars

\* run_cmd called on its own, for every launch outcome.
SpecRunCmd == Init /\ [][RcNext]_vars

\* append_emulation_record called by concurrent callers, on every ledger the
\* server may find.
InitLedger ==
  /\ nread = 0
  /\ pc = "read"
  /\ cur = NoLine
  /\ msg = [kind |-> "unbound", id |-> None]
  /\ jw = [w \in Writers |-> Idle]
  /\ WRITE_LOCK = {}
  /\ out = <<>>
  /\ rc = RcIdle
  /\ csv \in InitialLedgers
  /\ ap = [w \in Appenders |-> ApIdle]
  /\ appends = 0
  /\ db = EmptyDb
  /\ kb = KbIdle
  /\ h = [w \in EmuWorkers |-> HIdle]
  /\ emucalls = 0
  /\ ini = <<>>
  /\ al = <<>>
  /\ sq = SqIdle

SpecLedger == InitLedger /\ [][LNext]_vars

\* The store called on its own: kb_init and the two inserts, in any order.
SpecKB == Init /\ [][KNext]_vars

\* firmae.emulate handled by concurrent workers, with the ledger and the
\* store they share.
SpecEmu == Init /\ [][ENext]_vars

\* The initialize branch on its own, for every shape of params.
SpecInitialize == Init /\ [][INext]_vars

\* append_emulation_record called one call after the other, on a ledger that
\* is absent or an empty file at the start.
InitFresh ==
  /\ nread = 0
  /\ pc = "read"
  /\ cur = NoLine
  /\ msg = [kind |-> "unbound", id |-> None]
  /\ jw = [w \in Writers |-> Idle]
  /\ WRITE_LOCK = {}
  /\ out = <<>>
  /\ rc = RcIdle
  /\ csv \in {Absent, File(TRUE, TRUE, <<>>)}
  /\ ap = [w \in Appenders |-> ApIdle]
  /\ appends = 0
  /\ db = EmptyDb
  /\ kb = KbIdle
  /\ h = [w \in EmuWorkers |-> HIdle]
  /\ emucalls = 0
  /\ ini = <<>>
  /\ al = <<>>
  /\ sq = SqIdle

SpecLedgerSeq == InitFresh /\ [][SNext]_vars

\* _analyze_logs called on its own, for every dict of log tails.
SpecAnalyze == Init /\ [][ANext]_vars
====
